---- MODULE Spec2Model ----
(***************************************************************************)
(* execfs: the FUSE callbacks of src/fileops.c as a state machine.         *)
(*                                                                         *)
(* State: the configured entry table and mount identity (globals.h), one   *)
(* fuse_file_info per open-file session, the FILE objects popen() made and *)
(* the child processes behind them.  Every callback is one action; the     *)
(* result of the latest callback is kept in `last`.                        *)
(***************************************************************************)
EXTENDS Integers, Sequences, FiniteSets, TLC

VARIABLES
    entries,   \* entries[] / entries_sz: the configured entry table
    uid,       \* mount identity (globals.h)
    gid,
    fi,        \* fi[h]: the fuse_file_info of session h (open?, path, flags, fh)
    streams,   \* streams[id]: the FILE popen() returned as pointer id, or NoStream
    procs,     \* procs[id]: the child process behind streams[id], or NoProc
    hist,      \* hist[h]: what the caller of session h has seen (bytes read, bytes
               \* accepted, whether it has flushed the stream)
    last       \* the latest callback: its arguments and its return value

vars == <<entries, uid, gid, fi, streams, procs, hist, last>>

----------------------------------------------------------------------------
(* Bounds of the model. *)

\* Largest size argument of one read or write call.
MaxIO == 2
\* Bytes one session passes to write in total.
MaxBytes == 3
\* Capacity of a FILE's stdio buffer, in bytes.
BufCap == 2
\* Entries of a configured registry.
MaxEntries == 3

\* The open-file sessions the transport keeps at once, and the FILE pointers
\* popen can hand out to them: two, so that every callback on one session
\* runs with another session open.
Handles == {1, 2}
StreamIds == {1, 2}

----------------------------------------------------------------------------
(* Program constants. *)

ENOENT == 2
EACCES == 13
EBADF == 9
O_RDONLY == 0
O_WRONLY == 1
O_RDWR == 2
RIGHTS_MASK == 3
S_IFDIR == 16384
S_IFREG == 32768
S_IRUSR == 256
S_IWUSR == 128
S_IXUSR == 64
S_IRGRP == 32
S_IWGRP == 16
S_IXGRP == 8
S_IROTH == 4
S_IWOTH == 2
S_IXOTH == 1
\* What the assert() of fileops.c returns when it fails.
ASSERT_FAIL == -1
\* EOF, as fflush() returns it, and the -1 of a failed fsync().
C_EOF == -1

BIT(n) == 2 ^ n
R == BIT(2)
W == BIT(1)
X == BIT(0)

\* x & b # 0, for b a single bit.
HasBit(x, b) == (x \div b) % 2 = 1

Min(a, b) == IF a <= b THEN a ELSE b
Take(s, n) == SubSeq(s, 1, Min(n, Len(s)))
Drop(s, n) == SubSeq(s, Min(n, Len(s)) + 1, Len(s))

----------------------------------------------------------------------------
(* The configuration the mount was started with. *)

Entry(p, c, u, g, o) ==
    [path |-> p, command |-> c,
     u_r |-> HasBit(u, R), u_w |-> HasBit(u, W), u_x |-> HasBit(u, X),
     g_r |-> HasBit(g, R), g_w |-> HasBit(g, W), g_x |-> HasBit(g, X),
     o_r |-> HasBit(o, R), o_w |-> HasBit(o, W), o_x |-> HasBit(o, X)]

\* The i-th of the configured entries the model draws registries from.  The
\* first two give every combination of the read and write bits to some
\* principal: a = rw- r-- ---, b = -wx rw- --x.
Letters == <<"a", "b", "c", "d", "e">>
Triples == << <<6, 4, 0>>, <<3, 6, 1>>, <<5, 0, 7>>, <<0, 2, 4>>, <<7, 7, 7>> >>
EntryNo(i) ==
    Entry(<<Letters[i]>>, IF i = 1 THEN "hello" ELSE "sink",
          Triples[i][1], Triples[i][2], Triples[i][3])

\* The registry of the sessions' specifications.
Registry == << EntryNo(1), EntryNo(2) >>

\* Registries of up to MaxEntries entries with distinct paths, in every order.
Orders(n) ==
    {s \in [1..n -> 1..MaxEntries] : \A i, j \in 1..n : i # j => s[i] # s[j]}
OrderedRegistries ==
    UNION {{[k \in 1..n |-> EntryNo(s[k])] : s \in Orders(n)} : n \in 0..MaxEntries}

\* Registries of one entry, with each of the 512 settings of its nine bits.
OneEntryRegistries ==
    {<<Entry(<<"a">>, "hello", u, g, o)>> : u \in 0..7, g \in 0..7, o \in 0..7}

\* What a configured command prints on its standard output before it ends.
Output(command) ==
    IF command = "hello" THEN <<"h", "e", "y">> ELSE <<>>

\* Whether a configured command keeps reading its standard input until
\* end-of-stream ("sink": cat > file).  Any other command may end at any time.
ReadsToEOF(command) == command = "sink"

\* uid and gid values of the mount and of callers: 1 is the mounter's.
Ids == {0, 1}
Principals == [uid : Ids, gid : Ids]

\* Paths the transport passes: the root, both entries, an unknown name and a
\* path without the leading separator.
Paths ==
    { <<"/">>, <<"/", "a">>, <<"/", "b">>, <<"/", "z">>, <<"a">> }

\* Open flags: the four values of the access-mode bits, and O_WRONLY with a
\* higher flag bit (O_APPEND) set.
OpenFlags == {0, 1, 2, 3, 1025}

----------------------------------------------------------------------------
(* Path Resolver and Access Controller. *)

is_root(path) == path = <<"/">>

\* The loop of find_entry keeping the last entry that matches.
find_from_last(name, i) ==
    LET matches == {j \in i..Len(entries) : entries[j].path = name}
    IN IF matches = {} THEN 0 ELSE CHOOSE j \in matches : \A k \in matches : k <= j

\* The loop of find_entry from index i on: the index of the first entry whose
\* path equals name, 0 (NULL) when there is none.
RECURSIVE find_from(_, _)
find_from(name, i) ==
    IF i > Len(entries) THEN 0
    ELSE IF name = entries[i].path THEN i
    ELSE find_from(name, i + 1)

find_entry(path) ==
    IF Len(path) = 0 \/ path[1] # "/" THEN 0
    ELSE find_from(Tail(path), 1)

Bits(r, w, x) == (IF r THEN R ELSE 0) + (IF w THEN W ELSE 0) + (IF x THEN X ELSE 0)

\* access_rights in which an execute bit grants reading as well.
access_rights_exec_reads(e, context) ==
    IF context.uid = uid THEN Bits(e.u_r \/ e.u_x, e.u_w, e.u_x)
    ELSE IF context.gid = gid THEN Bits(e.g_r \/ e.g_x, e.g_w, e.g_x)
    ELSE Bits(e.o_r \/ e.o_x, e.o_w, e.o_x)

\* access_rights with the group rule tried before the owner rule.
access_rights_group_first(e, context) ==
    IF context.gid = gid THEN Bits(e.g_r, e.g_w, e.g_x)
    ELSE IF context.uid = uid THEN Bits(e.u_r, e.u_w, e.u_x)
    ELSE Bits(e.o_r, e.o_w, e.o_x)

access_rights(e, context) ==
    IF context.uid = uid THEN Bits(e.u_r, e.u_w, e.u_x)
    ELSE IF context.gid = gid THEN Bits(e.g_r, e.g_w, e.g_x)
    ELSE Bits(e.o_r, e.o_w, e.o_x)

\* open_denied with O_RDWR left out of the write test.
open_denied_rdwr_unchecked(entry_rights, rights) ==
    \/ (rights = O_RDONLY \/ rights = O_RDWR) /\ ~HasBit(entry_rights, R)
    \/ rights = O_WRONLY /\ ~HasBit(entry_rights, W)

\* open_denied that refuses nothing.
open_denied_never(entry_rights, rights) == FALSE

\* The condition of exec_open under which it returns -EACCES.
open_denied(entry_rights, rights) ==
    \/ (rights = O_RDONLY \/ rights = O_RDWR) /\ ~HasBit(entry_rights, R)
    \/ (rights = O_WRONLY \/ rights = O_RDWR) /\ ~HasBit(entry_rights, W)

\* The mode string exec_open passes to popen.
popen_mode(rights) == IF rights = O_RDONLY THEN "r" ELSE "w"

----------------------------------------------------------------------------
(* The stdio streams and child processes behind popen/pclose. *)

NoStream == [mode |-> "none", rbuf |-> <<>>, wbuf |-> <<>>]
NoProc == [state |-> "none", command |-> "", stdin |-> <<>>, out |-> <<>>]

\* popen handing out the same stream whatever streams are in use.
FreeId_first == CHOOSE id \in StreamIds : \A other \in StreamIds : id <= other

\* Pointers popen can return: a FILE slot with no stream and no child left.
FreeIds == {id \in StreamIds : streams[id] = NoStream /\ procs[id] = NoProc}
FreeId == CHOOSE id \in FreeIds : \A other \in FreeIds : id <= other

\* popen(command, mode): a child running command, and a one-directional
\* stream to its standard input ("w") or from its standard output ("r").
PopenStream(mode) == [mode |-> mode, rbuf |-> <<>>, wbuf |-> <<>>]
PopenProc(command, mode) ==
    [state |-> "running", command |-> command, stdin |-> <<>>,
     out |-> IF mode = "r" THEN Output(command) ELSE <<>>]

\* fread(buf, 1, size, stream): blocks until size bytes or end-of-stream.
\* ra is how far the stream reads ahead of the request when it refills its
\* buffer.  On a stream that is not open for reading it returns nothing.
Fread(s, p, size, ra) ==
    IF s.mode # "r" THEN [data |-> <<>>, rbuf |-> s.rbuf, out |-> p.out]
    ELSE IF size <= Len(s.rbuf)
    THEN [data |-> Take(s.rbuf, size), rbuf |-> Drop(s.rbuf, size), out |-> p.out]
    ELSE LET avail == s.rbuf \o p.out
             rest == Drop(avail, size)
             n == Min(ra, Min(Len(rest), BufCap - 1))
         IN [data |-> Take(avail, size), rbuf |-> Take(rest, n), out |-> Drop(rest, n)]

\* fwrite(buf, 1, size, stream): data goes to the stream's buffer; a buffer
\* that overflows is written to the pipe, which fails once the child has
\* ended (EPIPE) and then only what fitted the buffer counts as written.
Fwrite(s, p, data) ==
    LET space == BufCap - Len(s.wbuf)
        n == Len(data)
    IN IF s.mode # "w" THEN [ret |-> 0, wbuf |-> s.wbuf, stdin |-> p.stdin]
       ELSE IF n <= space
       THEN [ret |-> n, wbuf |-> s.wbuf \o data, stdin |-> p.stdin]
       ELSE IF p.state = "running"
       THEN LET all == s.wbuf \o data
                keep == (n - space) % BufCap
            IN [ret |-> n, wbuf |-> Drop(all, Len(all) - keep),
                stdin |-> p.stdin \o Take(all, Len(all) - keep)]
       ELSE [ret |-> space, wbuf |-> s.wbuf \o Take(data, space), stdin |-> p.stdin]

\* fflush(stream).  Output stream: the buffer is written to the pipe (EOF when
\* the child has ended).  Input stream: undefined by ISO C (7.21.5.2); a libc
\* either keeps the bytes it has read ahead or discards them (discard).
Fflush(s, p, discard) ==
    IF s.mode = "w"
    THEN IF s.wbuf = <<>> THEN [ret |-> 0, rbuf |-> s.rbuf, wbuf |-> s.wbuf, stdin |-> p.stdin]
         ELSE IF p.state = "running"
         THEN [ret |-> 0, rbuf |-> s.rbuf, wbuf |-> <<>>, stdin |-> p.stdin \o s.wbuf]
         ELSE [ret |-> C_EOF, rbuf |-> s.rbuf, wbuf |-> s.wbuf, stdin |-> p.stdin]
    ELSE [ret |-> 0, rbuf |-> IF discard THEN <<>> ELSE s.rbuf,
          wbuf |-> s.wbuf, stdin |-> p.stdin]

\* pclose(stream): flushes and closes the stream, then waits for the child,
\* which is reaped.  What the child received in all is PcloseStdin.
\* pclose that closes the descriptor without flushing the buffer.
PcloseStdin_unflushed(s, p) == p.stdin
\* pclose that closes the stream without waiting for the child (fclose).
PcloseProc_unwaited(p) == p

PcloseStdin(s, p) == Fflush(s, p, TRUE).stdin
PcloseStream(s) == NoStream
PcloseProc(p) == NoProc

----------------------------------------------------------------------------
(* Sessions of the transport and the record of the latest callback. *)

NoFi == [open |-> FALSE, path |-> <<>>, flags |-> 0, fh |-> 0]
NoHist == [got |-> <<>>, sent |-> <<>>, flushed |-> FALSE]
NoContext == [uid |-> 0, gid |-> 0]

NoStat == [st_mode |-> 0, st_uid |-> 0, st_gid |-> 0, st_nlink |-> 0]

NoCall ==
    [op |-> "none", h |-> 0, path |-> <<>>, flags |-> 0, context |-> NoContext,
     size |-> 0, ret |-> 0, data |-> <<>>, dir |-> "none", popen |-> "none",
     fh |-> 0, sent |-> <<>>, delivered |-> <<>>,
     entry |-> 0, offset |-> 0, emitted |-> <<>>, first |-> 0, listed |-> <<>>,
     st |-> NoStat]

\* The record of a call: the fields given, the others as in NoCall.
Call(r) == [f \in DOMAIN NoCall |-> IF f \in DOMAIN r THEN r[f] ELSE NoCall[f]]

\* The transport opens a session on a fuse_file_info that is not in use; by
\* symmetry, the lowest one.
NewSession(h) ==
    /\ ~fi[h].open
    /\ \A k \in Handles : k < h => fi[k].open

\* The kernel passes a read (a write) only on a descriptor opened with read
\* (write) access: flags & O_ACCMODE is O_RDONLY or O_RDWR (O_WRONLY or O_RDWR).
MayRead(h) == fi[h].open /\ (fi[h].flags % 4) \in {O_RDONLY, O_RDWR}
MayWrite(h) == fi[h].open /\ (fi[h].flags % 4) \in {O_WRONLY, O_RDWR}

----------------------------------------------------------------------------
(* The callbacks. *)

\* open_result reporting a failed popen as a refusal of access.
open_result_as_denied(fh) == IF fh = 0 THEN -EACCES ELSE 0

\* open_result without the test for a failed popen.
open_result_unchecked(fh) == 0

\* What exec_open returns after popen, from the pointer it stored in fi->fh.
open_result(fh) == IF fh = 0 THEN -EBADF ELSE 0

exec_open(h, path, flags, context, spawn) ==
    /\ NewSession(h)
    /\ LET e == find_entry(path)
           rights == flags % (RIGHTS_MASK + 1)
           call == [op |-> "open", h |-> h, path |-> path, flags |-> flags,
                    context |-> context]
       IN IF e = 0
          THEN /\ last' = Call(call @@ [ret |-> -ENOENT])
               /\ UNCHANGED <<fi, streams, procs, hist>>
          ELSE IF open_denied(access_rights(entries[e], context), rights)
          THEN /\ last' = Call(call @@ [ret |-> -EACCES])
               /\ UNCHANGED <<fi, streams, procs, hist>>
          ELSE LET mode == popen_mode(rights)
                   ok == spawn /\ FreeIds # {}
                   fh == IF ok THEN FreeId ELSE 0
                   ret == open_result(fh)
               IN /\ streams' = IF ok THEN [streams EXCEPT ![fh] = PopenStream(mode)]
                                ELSE streams
                  /\ procs' = IF ok
                              THEN [procs EXCEPT ![fh] = PopenProc(entries[e].command, mode)]
                              ELSE procs
                  /\ fi' = [fi EXCEPT ![h] = IF ret = 0
                                THEN [open |-> TRUE, path |-> path, flags |-> flags, fh |-> fh]
                                ELSE NoFi]
                  /\ hist' = [hist EXCEPT ![h] = NoHist]
                  /\ last' = Call(call @@ [ret |-> ret, fh |-> fh, dir |-> mode,
                                           popen |-> IF ok THEN "ok" ELSE "failed"])
    /\ UNCHANGED <<entries, uid, gid>>

exec_read(h, size, ra) ==
    /\ MayRead(h)
    /\ LET fh == fi[h].fh
           call == [op |-> "read", h |-> h, path |-> fi[h].path, size |-> size]
       IN IF fh = 0
          THEN /\ last' = Call(call @@ [ret |-> ASSERT_FAIL])
               /\ UNCHANGED <<streams, procs, hist>>
          ELSE LET r == Fread(streams[fh], procs[fh], size, ra)
                   sz == Len(r.data)
               IN /\ streams' = [streams EXCEPT ![fh].rbuf = r.rbuf]
                  /\ procs' = [procs EXCEPT ![fh].out = r.out]
                  /\ hist' = [hist EXCEPT ![h].got = @ \o r.data]
                  /\ last' = Call(call @@ [ret |-> sz, data |-> r.data, fh |-> fh,
                                           dir |-> streams[fh].mode])
    /\ UNCHANGED <<entries, uid, gid, fi>>

\* The bytes of a write call: numbered by their position in all the session
\* writes, so that a dropped, repeated or reordered byte shows.
WriteData(h, size) == [k \in 1..size |-> Len(hist[h].sent) + k]

exec_write(h, size) ==
    /\ MayWrite(h)
    /\ Len(hist[h].sent) + size <= MaxBytes
    /\ LET fh == fi[h].fh
           call == [op |-> "write", h |-> h, path |-> fi[h].path, size |-> size]
       IN IF fh = 0
          THEN /\ last' = Call(call @@ [ret |-> ASSERT_FAIL])
               /\ UNCHANGED <<streams, procs, hist>>
          ELSE LET r == Fwrite(streams[fh], procs[fh], WriteData(h, size))
               IN /\ streams' = [streams EXCEPT ![fh].wbuf = r.wbuf]
                  /\ procs' = [procs EXCEPT ![fh].stdin = r.stdin]
                  /\ hist' = [hist EXCEPT ![h].sent = @ \o Take(WriteData(h, size), r.ret)]
                  /\ last' = Call(call @@ [ret |-> r.ret, fh |-> fh,
                                           dir |-> streams[fh].mode])
    /\ UNCHANGED <<entries, uid, gid, fi>>

exec_flush(path, h, discard) ==
    /\ fi[h].open
    /\ LET fh == fi[h].fh
           call == [op |-> "flush", h |-> h, path |-> path]
       IN IF is_root(path)
          THEN /\ last' = Call(call @@ [ret |-> 0])
               /\ UNCHANGED <<streams, procs, hist>>
          ELSE IF find_entry(path) = 0
          THEN /\ last' = Call(call @@ [ret |-> -ENOENT])
               /\ UNCHANGED <<streams, procs, hist>>
          ELSE IF fh = 0
          THEN /\ last' = Call(call @@ [ret |-> ASSERT_FAIL])
               /\ UNCHANGED <<streams, procs, hist>>
          ELSE LET r == Fflush(streams[fh], procs[fh], discard)
               IN /\ streams' = [streams EXCEPT ![fh].rbuf = r.rbuf, ![fh].wbuf = r.wbuf]
                  /\ procs' = [procs EXCEPT ![fh].stdin = r.stdin]
                  /\ hist' = [hist EXCEPT ![h].flushed = TRUE]
                  /\ last' = Call(call @@ [ret |-> r.ret, fh |-> fh,
                                           dir |-> streams[fh].mode])
    /\ UNCHANGED <<entries, uid, gid, fi>>

\* fsync(fileno(stream)) on a pipe fails (EINVAL) and changes nothing.
exec_fsync(path, h) ==
    /\ fi[h].open
    /\ LET fh == fi[h].fh
           call == [op |-> "fsync", h |-> h, path |-> path]
       IN IF is_root(path) THEN last' = Call(call @@ [ret |-> 0])
          ELSE IF find_entry(path) = 0 THEN last' = Call(call @@ [ret |-> -ENOENT])
          ELSE IF fh = 0 THEN last' = Call(call @@ [ret |-> ASSERT_FAIL])
          ELSE last' = Call(call @@ [ret |-> C_EOF, fh |-> fh, dir |-> streams[fh].mode])
    /\ UNCHANGED <<entries, uid, gid, fi, streams, procs, hist>>

\* The transport releases a session once, with the path it was opened on, and
\* then drops its fuse_file_info.
exec_release(h) ==
    /\ fi[h].open
    /\ LET fh == fi[h].fh
           path == fi[h].path
           call == [op |-> "release", h |-> h, path |-> path, flags |-> fi[h].flags,
                    sent |-> hist[h].sent]
       IN IF ~(is_root(path) \/ find_entry(path) # 0) \/ fh = 0
          THEN /\ last' = Call(call @@ [ret |-> ASSERT_FAIL])
               /\ UNCHANGED <<streams, procs>>
          ELSE /\ streams' = [streams EXCEPT ![fh] = PcloseStream(streams[fh])]
               /\ procs' = [procs EXCEPT ![fh] = PcloseProc(procs[fh])]
               /\ last' = Call(call @@ [ret |-> 0, fh |-> fh, dir |-> streams[fh].mode,
                                        data |-> streams[fh].wbuf,
                                        delivered |-> PcloseStdin(streams[fh], procs[fh])])
    /\ fi' = [fi EXCEPT ![h] = NoFi]
    /\ hist' = [hist EXCEPT ![h] = NoHist]
    /\ UNCHANGED <<entries, uid, gid>>

\* The child of a stream ends by itself: a command that prints has printed, a
\* command that does not read to end-of-stream stops reading.
ChildExit(id) ==
    /\ procs[id].state = "running"
    /\ ~(streams[id].mode = "w" /\ ReadsToEOF(procs[id].command))
    /\ procs' = [procs EXCEPT ![id].state = "exited"]
    /\ UNCHANGED <<entries, uid, gid, fi, streams, hist, last>>

\* FAIL_STUB(func): logs and returns -EACCES.
FailStubs ==
    {"bmap", "chmod", "chown", "link", "mkdir", "mknod", "readlink",
     "removexattr", "rename", "rmdir", "setxattr", "symlink", "unlink"}

\* A rejected call defined with NOP_STUB in place of FAIL_STUB.
fail_stub_as_nop(func, path) ==
    /\ last' = Call([op |-> func, path |-> path,
                     ret |-> IF ~is_root(path) /\ find_entry(path) = 0 THEN -ENOENT ELSE 0])
    /\ UNCHANGED <<entries, uid, gid, fi, streams, procs, hist>>

fail_stub(func, path) ==
    /\ last' = Call([op |-> func, path |-> path, ret |-> -EACCES])
    /\ UNCHANGED <<entries, uid, gid, fi, streams, procs, hist>>

\* NOP_STUB(func): logs, returns -ENOENT for a path that is neither the root
\* nor an entry's, and 0 otherwise.  The caller's context is not consulted.
NopStubs == {"fsyncdir", "releasedir", "truncate", "utime", "utimens"}

\* An accepted call defined with FAIL_STUB in place of NOP_STUB.
nop_stub_as_fail(func, path, context) ==
    /\ last' = Call([op |-> func, path |-> path, context |-> context, ret |-> -EACCES])
    /\ UNCHANGED <<entries, uid, gid, fi, streams, procs, hist>>

nop_stub(func, path, context) ==
    /\ last' = Call([op |-> func, path |-> path, context |-> context,
                     ret |-> IF ~is_root(path) /\ find_entry(path) = 0 THEN -ENOENT ELSE 0])
    /\ UNCHANGED <<entries, uid, gid, fi, streams, procs, hist>>

\* exec_getattr.  The stat buffer is the transport's; of its fields the model
\* keeps the mode, the owner and the link count.
RootMode == S_IFDIR + S_IRUSR + S_IXUSR + S_IRGRP + S_IXGRP + S_IROTH + S_IXOTH

\* EntryMode with the group and other write bits exchanged.
EntryMode_write_bits_swapped(e) ==
    S_IFREG
    + (IF e.u_r THEN S_IRUSR ELSE 0)
    + (IF e.u_w THEN S_IWUSR ELSE 0)
    + (IF e.u_x THEN S_IXUSR ELSE 0)
    + (IF e.g_r THEN S_IRGRP ELSE 0)
    + (IF e.o_w THEN S_IWGRP ELSE 0)
    + (IF e.g_x THEN S_IXGRP ELSE 0)
    + (IF e.o_r THEN S_IROTH ELSE 0)
    + (IF e.g_w THEN S_IWOTH ELSE 0)
    + (IF e.o_x THEN S_IXOTH ELSE 0)

EntryMode(e) ==
    S_IFREG
    + (IF e.u_r THEN S_IRUSR ELSE 0)
    + (IF e.u_w THEN S_IWUSR ELSE 0)
    + (IF e.u_x THEN S_IXUSR ELSE 0)
    + (IF e.g_r THEN S_IRGRP ELSE 0)
    + (IF e.g_w THEN S_IWGRP ELSE 0)
    + (IF e.g_x THEN S_IXGRP ELSE 0)
    + (IF e.o_r THEN S_IROTH ELSE 0)
    + (IF e.o_w THEN S_IWOTH ELSE 0)
    + (IF e.o_x THEN S_IXOTH ELSE 0)

\* The owner exec_getattr reports to a caller with the given context.
StatOwner(context) == [st_uid |-> uid, st_gid |-> gid]

exec_getattr(path, context) ==
    /\ LET own == StatOwner(context)
           call == [op |-> "getattr", path |-> path, context |-> context]
           e == find_entry(path)
       IN IF is_root(path)
          THEN last' = Call(call @@ [ret |-> 0,
                    st |-> [st_mode |-> RootMode, st_uid |-> own.st_uid,
                            st_gid |-> own.st_gid, st_nlink |-> 1]])
          ELSE IF e = 0
          THEN last' = Call(call @@ [ret |-> -ENOENT,
                    st |-> [NoStat EXCEPT !.st_uid = own.st_uid, !.st_gid = own.st_gid]])
          ELSE last' = Call(call @@ [ret |-> 0, entry |-> e,
                    st |-> [st_mode |-> EntryMode(entries[e]), st_uid |-> own.st_uid,
                            st_gid |-> own.st_gid, st_nlink |-> 1]])
    /\ UNCHANGED <<entries, uid, gid, fi, streams, procs, hist>>

\* The offset exec_readdir passes to filler with entry i being the entry's own.
next_off_current(i) == i

\* The offset exec_readdir passes to filler with entry i: that of the entry
\* after it.
next_off(i) == i + 1

\* The loop of exec_readdir stopping one entry early (i + 1 < entries_sz).
RECURSIVE readdir_from_short(_, _, _)
readdir_from_short(i, room, acc) ==
    IF i + 1 >= Len(entries) THEN acc
    ELSE IF Len(acc) >= room THEN acc
    ELSE readdir_from_short(i + 1, room,
                            Append(acc, [name |-> entries[i + 1].path, off |-> next_off(i)]))

\* The loop of exec_readdir from index i (counted from 0, as in the code).
\* filler takes an entry while its buffer has room for one more and returns
\* non-zero, without taking the entry, once it is full.
RECURSIVE readdir_from(_, _, _)
readdir_from(i, room, acc) ==
    IF i >= Len(entries) THEN acc
    ELSE IF Len(acc) >= room THEN acc
    ELSE readdir_from(i + 1, room,
                      Append(acc, [name |-> entries[i + 1].path, off |-> next_off(i)]))

\* The start index a caller paging through a listing passes next: the offset
\* filler was given with the last entry it took, 0 when it has taken none.
Cursor(listed) == IF listed = <<>> THEN 0 ELSE listed[Len(listed)].off

\* The call records, with what it emitted, the listing it belongs to: a call
\* on the root whose offset is the cursor of a listing begun at index 0
\* continues that listing (first, listed); any other call begins one.
exec_readdir(path, offset, room) ==
    /\ LET call == [op |-> "readdir", path |-> path, offset |-> offset, size |-> room]
           continues == /\ last.op = "readdir"
                        /\ is_root(last.path)
                        /\ last.first = 0
                        /\ offset = Cursor(last.listed)
           before == IF continues THEN last.listed ELSE <<>>
           emitted == readdir_from(offset, room, <<>>)
       IN IF ~is_root(path)
          THEN last' = Call(call @@ [ret |-> -EBADF])
          ELSE last' = Call(call @@ [ret |-> 0, emitted |-> emitted,
                                     first |-> IF continues THEN 0 ELSE offset,
                                     listed |-> before \o emitted])
    /\ UNCHANGED <<entries, uid, gid, fi, streams, procs, hist>>

\* is_root(path) and find_entry(path) run on a path: ret is what is_root
\* returns, entry the entry found (0 for NULL).
find_call(path) ==
    /\ last' = Call([op |-> "find_entry", path |-> path, entry |-> find_entry(path),
                     ret |-> IF is_root(path) THEN 1 ELSE 0])
    /\ UNCHANGED <<entries, uid, gid, fi, streams, procs, hist>>

\* access_rights(entry) run for entry number e under a caller's context.
rights_call(e, context) ==
    /\ last' = Call([op |-> "access_rights", entry |-> e, context |-> context,
                     ret |-> access_rights(entries[e], context)])
    /\ UNCHANGED <<entries, uid, gid, fi, streams, procs, hist>>

----------------------------------------------------------------------------
(* The mounted file system under its transport. *)

\* No session is open when the file system is mounted.
NoSessions ==
    /\ fi = [h \in Handles |-> NoFi]
    /\ streams = [id \in StreamIds |-> NoStream]
    /\ procs = [id \in StreamIds |-> NoProc]
    /\ hist = [h \in Handles |-> NoHist]
    /\ last = NoCall

Init ==
    /\ entries = Registry
    /\ uid = 1
    /\ gid = 1
    /\ NoSessions

\* Open calls with path, flags and caller drawn from the given sets.
Opens(P, F, C) ==
    \E h \in Handles, path \in P, flags \in F, context \in C, spawn \in BOOLEAN :
        exec_open(h, path, flags, context, spawn)

Reads == \E h \in Handles, size \in 1..MaxIO, ra \in 0..BufCap : exec_read(h, size, ra)
Writes == \E h \in Handles, size \in 1..MaxIO : exec_write(h, size)
\* The transport flushes and syncs a session with the path it was opened on.
Flushes == \E h \in Handles, discard \in BOOLEAN : exec_flush(fi[h].path, h, discard)
Fsyncs == \E h \in Handles : exec_fsync(fi[h].path, h)
Releases == \E h \in Handles : exec_release(h)
ChildExits == \E id \in StreamIds : ChildExit(id)
FailStubCalls == \E func \in FailStubs, path \in Paths : fail_stub(func, path)
NopStubCalls ==
    \E func \in NopStubs, path \in Paths, context \in Principals :
        nop_stub(func, path, context)

\* The open-file sessions.  Opens are on the entries' own paths by the mounter
\* and by a member of the mount's group, who between them can open each entry
\* with each access mode: a refused open changes nothing but `last`.
EntryPaths == { <<"/", "a">>, <<"/", "b">> }
Openers == { [uid |-> 1, gid |-> 1], [uid |-> 0, gid |-> 1] }
AccessModes == {0, 1, 2, 3}

Next ==
    \/ Opens(EntryPaths, AccessModes, Openers)
    \/ Reads
    \/ Writes
    \/ Flushes
    \/ Fsyncs
    \/ Releases
    \/ ChildExits

Spec == Init /\ [][Next]_vars

\* Open calls with every path, flag value and caller, and the releases.
NextOpen ==
    \/ Opens(Paths, OpenFlags, Principals)
    \/ Releases

SpecOpen == Init /\ [][NextOpen]_vars

\* Sessions being opened, written and released, and the stubbed calls.
NextStubs ==
    \/ Opens(EntryPaths, {O_RDONLY, O_WRONLY}, {[uid |-> 1, gid |-> 1]})
    \/ Writes
    \/ Releases
    \/ FailStubCalls
    \/ NopStubCalls

SpecStubs == Init /\ [][NextStubs]_vars

\* access_rights on one entry with each setting of its nine bits, under each
\* mount identity and caller.
InitRights ==
    /\ entries \in OneEntryRegistries
    /\ uid \in Ids
    /\ gid \in Ids
    /\ NoSessions

NextRights == \E context \in Principals : rights_call(1, context)

SpecRights == InitRights /\ [][NextRights]_vars

\* Attributes and listings of every registry.
InitMeta ==
    /\ entries \in OrderedRegistries \cup OneEntryRegistries
    /\ uid = 1
    /\ gid = 1
    /\ NoSessions

MetaPaths == Paths \cup { <<"/", "c">> }
DirPaths == { <<"/">>, <<"/", "a">>, <<"/", "z">> }

NextMeta ==
    \/ \E path \in MetaPaths, context \in Principals : exec_getattr(path, context)
    \/ \E path \in DirPaths, offset \in 0..(MaxEntries + 1), room \in 0..(MaxEntries + 1) :
            exec_readdir(path, offset, room)

SpecMeta == InitMeta /\ [][NextMeta]_vars

\* Every callback of a session, on paths that resolve and paths that do not,
\* with children that run until they are waited for.
SpawnPaths == EntryPaths \cup {<<"/">>, <<"/", "z">>}

NextSpawn ==
    \/ Opens(SpawnPaths, AccessModes, Openers)
    \/ Reads
    \/ Writes
    \/ Flushes
    \/ Fsyncs
    \/ Releases

SpecSpawn == Init /\ [][NextSpawn]_vars

\* Opens and attribute calls on one entry, for each setting of its nine bits.
InitExec ==
    /\ entries \in OneEntryRegistries
    /\ uid = 1
    /\ gid = 1
    /\ NoSessions

NextExec ==
    \/ Opens({<<"/", "a">>}, AccessModes, Principals)
    \/ \E context \in Principals : exec_getattr(<<"/", "a">>, context)

SpecExec == InitExec /\ [][NextExec]_vars

\* Resolution of paths, and opens, in registries of every order and in
\* registries where two entries have the same path (the code does not
\* exclude them).
SamePathRegistries ==
    {<<EntryNo(1), [EntryNo(2) EXCEPT !.path = EntryNo(1).path]>>,
     <<[EntryNo(2) EXCEPT !.path = EntryNo(1).path], EntryNo(1)>>,
     <<EntryNo(2), EntryNo(1), [EntryNo(2) EXCEPT !.path = EntryNo(1).path]>>}

InitResolve ==
    /\ entries \in OrderedRegistries \cup SamePathRegistries
    /\ uid = 1
    /\ gid = 1
    /\ NoSessions

\* The paths of Paths, an entry that may be missing, a name that begins with
\* an entry's, a path that ends with the separator and the empty path.
ResolvePaths ==
    Paths \cup {<<"/", "c">>, <<"/", "a", "a">>, <<"/", "a", "/">>, <<"/", "/">>, <<>>}

NextResolve ==
    \/ \E path \in ResolvePaths : find_call(path)
    \/ Opens(ResolvePaths, {O_RDONLY, O_WRONLY}, Openers)

SpecResolve == InitResolve /\ [][NextResolve]_vars

----------------------------------------------------------------------------
(* Vocabulary of the properties. *)

\* The path resolves to an Entry: it is the separator followed by the stored
\* path of some entry.
Resolves(path) == \E i \in 1..Len(entries) : path = <<"/">> \o entries[i].path

\* The entry a resolving path names.
EntryAt(path) == entries[CHOOSE i \in 1..Len(entries) : path = <<"/">> \o entries[i].path]

\* The rights bits an access mode implies.
ModeBits(mode) ==
    CASE mode = O_RDONLY -> R
      [] mode = O_WRONLY -> W
      [] mode = O_RDWR -> R + W

\* rights include every bit of need.
Covers(rights, need) == \A b \in {R, W, X} : HasBit(need, b) => HasBit(rights, b)

\* rights are exactly the three given bits.
RightsAre(rights, r, w, x) ==
    /\ rights \in 0..7
    /\ HasBit(rights, R) <=> r
    /\ HasBit(rights, W) <=> w
    /\ HasBit(rights, X) <=> x

IsPrefix(s, t) == Len(s) <= Len(t) /\ s = SubSeq(t, 1, Len(s))

AccessMode(flags) == flags % 4

----------------------------------------------------------------------------
(* C1 *)

\* C1 as stated: an open with mode read-only, write-only or read-write
\* succeeds if and only if the path resolves to an Entry and the caller's
\* rights include every bit the mode implies, and an open that does not
\* succeed fails with AccessDenied or NotFound.
C1_OpenIffResolvedAndPermitted ==
    (last.op = "open" /\ AccessMode(last.flags) \in {O_RDONLY, O_WRONLY, O_RDWR}) =>
        /\ last.ret = 0 <=>
              /\ Resolves(last.path)
              /\ Covers(access_rights(EntryAt(last.path), last.context),
                        ModeBits(AccessMode(last.flags)))
        /\ last.ret # 0 => last.ret \in {-EACCES, -ENOENT}

\* C1 amended: an open with mode read-only, write-only or read-write succeeds
\* if and only if the path resolves to an Entry, the caller's rights include
\* every bit the mode implies, and the backing command is spawned; an open
\* that does not succeed fails with NotFound when the path does not resolve,
\* with AccessDenied when the rights fall short, and with the bad-descriptor
\* error when the spawn fails.
C1_OpenOutcome ==
    (last.op = "open" /\ AccessMode(last.flags) \in {O_RDONLY, O_WRONLY, O_RDWR}) =>
        LET permitted ==
                /\ Resolves(last.path)
                /\ Covers(access_rights(EntryAt(last.path), last.context),
                          ModeBits(AccessMode(last.flags)))
        IN /\ last.ret = 0 <=> (permitted /\ last.popen = "ok")
           /\ last.ret = -ENOENT <=> ~Resolves(last.path)
           /\ last.ret = -EACCES <=> (Resolves(last.path) /\ ~permitted)
           /\ last.ret = -EBADF <=> (permitted /\ last.popen = "failed")
           /\ last.ret \in {0, -ENOENT, -EACCES, -EBADF}
           /\ last.ret = 0 <=> fi[last.h].open

\* A read-write open by a caller with both bits has succeeded.
C1_Witness ==
    /\ last.op = "open"
    /\ AccessMode(last.flags) = O_RDWR
    /\ last.ret = 0
    /\ fi[last.h].open

----------------------------------------------------------------------------
(* C2 *)

\* C2: the rights computed for an entry and a caller are the entry's owner
\* bits when the caller's uid is the mount's; otherwise its group bits when the
\* caller's gid is the mount's; otherwise its other bits.
C2_RightsByFirstMatch ==
    last.op = "access_rights" =>
        LET e == entries[last.entry]
            owner == last.context.uid = uid
            group == last.context.gid = gid
        IN /\ owner => RightsAre(last.ret, e.u_r, e.u_w, e.u_x)
           /\ (~owner /\ group) => RightsAre(last.ret, e.g_r, e.g_w, e.g_x)
           /\ (~owner /\ ~group) => RightsAre(last.ret, e.o_r, e.o_w, e.o_x)

\* The rights of a caller matching both uid and gid, on an entry whose owner
\* and group bits differ, have been computed.
C2_Witness ==
    /\ last.op = "access_rights"
    /\ last.context.uid = uid
    /\ last.context.gid = gid
    /\ entries[last.entry].u_r # entries[last.entry].g_r
    /\ entries[last.entry].u_w # entries[last.entry].g_w

----------------------------------------------------------------------------
(* C3 *)

\* C3: a handle that has been opened and not yet released has a non-null
\* backing stream, whatever was called on it or on another handle.
C3_OpenHandleHasStream ==
    \A h \in Handles :
        fi[h].open =>
            /\ fi[h].fh \in StreamIds
            /\ streams[fi[h].fh].mode \in {"r", "w"}

\* Two handles are open and the second has just been read, written, flushed
\* or synced while the first stays open.
C3_Witness ==
    /\ fi[1].open
    /\ fi[2].open
    /\ last.op \in {"read", "write", "flush", "fsync"}
    /\ last.h = 2
    /\ last.fh # 0

----------------------------------------------------------------------------
(* C4 *)

\* C4 as stated: read never operates on a stream that captures the child's
\* input, and write never on a stream that captures the child's output.
C4_DirectionRespected ==
    /\ (last.op = "read" /\ last.fh # 0) => last.dir = "r"
    /\ (last.op = "write" /\ last.fh # 0) => last.dir = "w"

----------------------------------------------------------------------------
(* C5 *)

\* C5: the release of an opened handle returns success and leaves the handle's
\* stream closed and its backing process reaped, and no backing process exists
\* that does not belong to a handle still open.
C5_ReleaseReapsChild ==
    /\ last.op = "release" =>
          /\ last.ret = 0
          /\ ~fi[last.h].open
          /\ streams[last.fh] = NoStream
          /\ procs[last.fh] = NoProc
    /\ \A id \in StreamIds :
          procs[id].state # "none" => \E h \in Handles : fi[h].open /\ fi[h].fh = id

\* A handle has been released after a write whose bytes never reached the
\* child.
C5_Witness ==
    /\ last.op = "release"
    /\ last.ret = 0
    /\ last.sent # last.delivered

----------------------------------------------------------------------------
(* C6 *)

\* C6 as stated: on a read-only handle, the bytes the reads have returned are,
\* in order, a prefix of what the command prints; a read returns at most
\* max_bytes and never an error, and it returns fewer (zero once nothing is
\* left, and zero again ever after) only when everything the command prints
\* has been returned.
C6_ReadsReturnOutput ==
    \A h \in Handles :
        (fi[h].open /\ AccessMode(fi[h].flags) = O_RDONLY) =>
            LET S == Output(EntryAt(fi[h].path).command)
            IN /\ IsPrefix(hist[h].got, S)
               /\ (last.op = "read" /\ last.h = h) =>
                     /\ last.ret = Len(last.data)
                     /\ last.ret \in 0..last.size
                     /\ last.ret < last.size => hist[h].got = S

\* C6 on the handles that have not been flushed, where it holds.
C6_ReadsReturnOutputUnflushed ==
    \A h \in Handles :
        (fi[h].open /\ AccessMode(fi[h].flags) = O_RDONLY /\ ~hist[h].flushed) =>
            LET S == Output(EntryAt(fi[h].path).command)
            IN /\ IsPrefix(hist[h].got, S)
               /\ (last.op = "read" /\ last.h = h) =>
                     /\ last.ret = Len(last.data)
                     /\ last.ret \in 0..last.size
                     /\ last.ret < last.size => hist[h].got = S

----------------------------------------------------------------------------
(* C7 *)

\* C7 as stated: when the release of a write-only handle completes, the
\* backing process has been delivered exactly the bytes the write calls
\* reported as accepted, in order.
C7_AcceptedBytesDelivered ==
    (last.op = "release" /\ AccessMode(last.flags) = O_WRONLY) =>
        last.delivered = last.sent

\* C7 amended: when the release of a write-only handle completes, and the
\* handle's command keeps reading its input until end-of-stream, the backing
\* process has been delivered exactly the bytes the write calls reported as
\* accepted, in order, those still buffered at release included.
C7_AcceptedBytesDeliveredToReader ==
    (/\ last.op = "release"
     /\ AccessMode(last.flags) = O_WRONLY
     /\ ReadsToEOF(EntryAt(last.path).command)) =>
        last.delivered = last.sent

\* A write-only handle on a command that reads to end-of-stream has been
\* released with accepted bytes delivered before and bytes still buffered.
C7_Witness ==
    /\ last.op = "release"
    /\ AccessMode(last.flags) = O_WRONLY
    /\ ReadsToEOF(EntryAt(last.path).command)
    /\ last.data # <<>>
    /\ Len(last.sent) > Len(last.data)

----------------------------------------------------------------------------
(* C8 *)

\* C8: a listing of the root from index k whose callback takes every entry
\* returns success and yields the paths of the registry from index k on, each
\* once and in registry order: all of them for k = 0, none for k at or past
\* the number of entries.
C8_ListYieldsSuffix ==
    (last.op = "readdir" /\ is_root(last.path) /\ last.size >= Len(entries)) =>
        LET k == last.offset
            n == Len(entries)
        IN /\ last.ret = 0
           /\ Len(last.emitted) = (IF k >= n THEN 0 ELSE n - k)
           /\ \A j \in 1..Len(last.emitted) : last.emitted[j].name = entries[k + j].path

\* A registry of three entries has been listed from index 1.
C8_Witness ==
    /\ last.op = "readdir"
    /\ is_root(last.path)
    /\ last.size >= Len(entries)
    /\ Len(entries) = 3
    /\ last.offset = 1
    /\ Len(last.emitted) = 2

----------------------------------------------------------------------------
(* C9 *)

\* The structural mutation calls.
MutationCalls ==
    {"link", "symlink", "mknod", "mkdir", "rmdir", "unlink", "rename", "chmod",
     "chown", "setxattr", "removexattr"}

\* C9: every structural mutation call, on a path that resolves or not, fails
\* with the permission error and leaves the registry, the mount identity and
\* every open handle as they were, so that paths resolve as before.
C9_MutationRejected ==
    [][last'.op \in MutationCalls =>
          /\ last'.ret = -EACCES
          /\ UNCHANGED <<entries, uid, gid, fi, streams, procs, hist>>
          /\ \A path \in Paths : find_entry(path)' = find_entry(path)]_vars

\* An unlink of an entry's path has been rejected while a handle on it is
\* open with accepted bytes.
C9_Witness ==
    /\ last.op = "unlink"
    /\ last.ret = -EACCES
    /\ Resolves(last.path)
    /\ \E h \in Handles : fi[h].open /\ fi[h].path = last.path /\ hist[h].sent # <<>>

----------------------------------------------------------------------------
(* C10 *)

\* C10: the attributes of the root are a directory with read and execute for
\* owner, group and other; the attributes of a path resolving to an Entry are a
\* regular file whose nine permission bits are the entry's nine stored bits,
\* owned by the mount identity whoever the caller is; the attributes of any
\* other path fail with NotFound.
C10_Attributes ==
    last.op = "getattr" =>
        LET mode == last.st.st_mode
        IN /\ is_root(last.path) =>
                /\ last.ret = 0
                /\ mode \div 4096 = 4
                /\ mode % 4096 = 365
           /\ (~is_root(last.path) /\ Resolves(last.path)) =>
                LET e == EntryAt(last.path)
                IN /\ last.ret = 0
                   /\ mode \div 4096 = 8
                   /\ mode % 4096 < 512
                   /\ HasBit(mode, 256) <=> e.u_r
                   /\ HasBit(mode, 128) <=> e.u_w
                   /\ HasBit(mode, 64) <=> e.u_x
                   /\ HasBit(mode, 32) <=> e.g_r
                   /\ HasBit(mode, 16) <=> e.g_w
                   /\ HasBit(mode, 8) <=> e.g_x
                   /\ HasBit(mode, 4) <=> e.o_r
                   /\ HasBit(mode, 2) <=> e.o_w
                   /\ HasBit(mode, 1) <=> e.o_x
                   /\ last.st.st_uid = uid
                   /\ last.st.st_gid = gid
           /\ (~is_root(last.path) /\ ~Resolves(last.path)) => last.ret = -ENOENT

\* The attributes of the second entry of a registry have been reported to a
\* caller who is not the mounter.
C10_Witness ==
    /\ last.op = "getattr"
    /\ last.ret = 0
    /\ Len(entries) >= 2
    /\ last.path = <<"/">> \o entries[2].path
    /\ last.context.uid # uid
    /\ last.context.gid # gid
    /\ entries[2].g_w # entries[2].o_w

----------------------------------------------------------------------------
(* C11 *)

\* C11 as stated: a listing of any path other than the root, an entry's path
\* or an unknown one, fails with NotADirectory (ENOTDIR, 20) and emits no
\* entry.
C11_ListOffRootNotADirectory ==
    (last.op = "readdir" /\ ~is_root(last.path)) =>
        /\ last.ret = -20
        /\ last.emitted = <<>>

----------------------------------------------------------------------------
(* C12 *)

\* The backing processes a step starts.
Started == {id \in StreamIds : procs[id].state = "none" /\ procs'[id].state # "none"}

\* C12: an open of a resolving path whose rights cover the mode makes one
\* spawn attempt, and starts one process when the attempt succeeds and none
\* when it fails; an open of a path that does not resolve, or whose rights do
\* not cover the mode, makes no attempt; and a step starts a process only if
\* it is a successful open, starting that handle's process and no other.
C12_SpawnedOncePerOpen ==
    [][/\ Cardinality(Started) <= 1
       /\ Started # {} =>
             /\ last'.op = "open"
             /\ last'.ret = 0
             /\ ~fi[last'.h].open
             /\ Started = {fi'[last'.h].fh}
       /\ (last' # last /\ last'.op = "open"
              /\ AccessMode(last'.flags) \in {O_RDONLY, O_WRONLY, O_RDWR}) =>
             LET permitted ==
                     /\ Resolves(last'.path)
                     /\ Covers(access_rights(EntryAt(last'.path), last'.context),
                               ModeBits(AccessMode(last'.flags)))
             IN /\ permitted => last'.popen \in {"ok", "failed"}
                /\ ~permitted => (last'.popen = "none" /\ Started = {})
                /\ last'.ret \in {-ENOENT, -EACCES} => last'.popen = "none"
                /\ last'.popen = "ok" => Cardinality(Started) = 1
                /\ last'.popen = "failed" => (Started = {} /\ ~fi'[last'.h].open)]_vars

\* A spawn attempt has failed while another handle is open, and the caller's
\* handle is not open.
C12_Witness ==
    /\ last.op = "open"
    /\ last.popen = "failed"
    /\ ~fi[last.h].open
    /\ \E h \in Handles : fi[h].open /\ hist[h].got # <<>>

----------------------------------------------------------------------------
(* C13 *)

\* C13 as stated: whatever the access-mode bits of the flags, a successful
\* open leaves a stream capturing the child's output only if the caller has
\* the read bit and a stream capturing the child's input only if the caller
\* has the write bit, and no command is spawned for a caller with neither bit.
C13_StreamCoveredByRights ==
    (last.op = "open" /\ Resolves(last.path)) =>
        LET rights == access_rights(EntryAt(last.path), last.context)
        IN /\ (last.ret = 0 /\ streams[last.fh].mode = "r") => HasBit(rights, R)
           /\ (last.ret = 0 /\ streams[last.fh].mode = "w") => HasBit(rights, W)
           /\ last.popen = "ok" => (HasBit(rights, R) \/ HasBit(rights, W))

----------------------------------------------------------------------------
(* C14 *)

\* C14: in a listing of the root begun at index 0 and resumed, call after
\* call, at the offset passed with the last entry the callback took (0 while
\* it has taken none), the entries taken so far are, for any page sizes, the
\* first entries of the registry, each once and in order; a call whose page
\* has room takes at least the entry refused before; and a call in which the
\* callback refused nothing has completed the listing.
C14_ListingResumes ==
    (last.op = "readdir" /\ is_root(last.path) /\ last.first = 0) =>
        LET n == Len(entries)
            taken == Len(last.listed)
        IN /\ taken <= n
           /\ \A j \in 1..taken :
                 /\ last.listed[j].name = entries[j].path
                 /\ last.listed[j].off = j
           /\ (last.size >= 1 /\ last.offset < n) => last.emitted # <<>>
           /\ Len(last.emitted) <= last.size
           /\ Len(last.emitted) < last.size => taken = n

\* The listing of a registry of three entries, begun at index 0 with the
\* callback refusing entries, has been completed by a call at index 2.
C14_Witness ==
    /\ last.op = "readdir"
    /\ is_root(last.path)
    /\ last.first = 0
    /\ Len(entries) = 3
    /\ last.offset = 2
    /\ last.size = 1
    /\ Len(last.emitted) = 1
    /\ Len(last.listed) = 3

----------------------------------------------------------------------------
(* C15 *)

\* C15: no two open handles have the same stream, and a call on one handle,
\* whatever the call and whether or not both handles are open on the same
\* entry, leaves every other handle's session, stream, backing process and
\* data read or accepted so far as they were.
C15_HandlesIsolated ==
    [][/\ \A g, h \in Handles :
             (g # h /\ fi[g].open /\ fi[h].open) => fi[g].fh # fi[h].fh
       /\ \A h \in Handles :
             (last' # last /\ last'.h = h) =>
                 \A g \in Handles \ {h} :
                     /\ fi'[g] = fi[g]
                     /\ hist'[g] = hist[g]
                     /\ fi[g].open =>
                           /\ streams'[fi[g].fh] = streams[fi[g].fh]
                           /\ procs'[fi[g].fh] = procs[fi[g].fh]]_vars

\* Two handles are open on the same entry, and the second has just been read
\* at a different position than the first.
C15_Witness ==
    /\ fi[1].open
    /\ fi[2].open
    /\ fi[1].path = fi[2].path
    /\ last.op = "read"
    /\ last.h = 2
    /\ last.ret > 0
    /\ hist[1].got # <<>>
    /\ hist[1].got # hist[2].got

----------------------------------------------------------------------------
(* C16 *)

\* C16: an open whose backing command cannot be spawned fails with the
\* bad-descriptor error, leaves its handle closed with a null stream, and
\* leaves every stream, every backing process, every other handle, the
\* registry and the mount identity as they were.
C16_SpawnFailure ==
    [][(last' # last /\ last'.op = "open" /\ last'.popen = "failed") =>
          /\ last'.ret = -EBADF
          /\ last'.fh = 0
          /\ ~fi'[last'.h].open
          /\ fi'[last'.h].fh = 0
          /\ \A id \in StreamIds :
                procs'[id].state # "none" =>
                    \E g \in Handles \ {last'.h} : fi'[g].open /\ fi'[g].fh = id
          /\ UNCHANGED <<entries, uid, gid, streams, procs>>
          /\ \A g \in Handles \ {last'.h} : fi'[g] = fi[g] /\ hist'[g] = hist[g]]_vars

\* A spawn has failed for an open by the owner while the other handle is open
\* with accepted bytes.
C16_Witness ==
    /\ last.op = "open"
    /\ last.popen = "failed"
    /\ last.ret = -EBADF
    /\ last.context.uid = uid
    /\ \E h \in Handles : fi[h].open /\ hist[h].sent # <<>>

----------------------------------------------------------------------------
(* C17 *)

\* The entries that differ from e in their execute bits at most.
XVariants(e) ==
    {[e EXCEPT !.u_x = a, !.g_x = b, !.o_x = c] : a, b, c \in BOOLEAN}

\* C17: the outcome of an open of an entry by a caller in a mode (refused
\* with AccessDenied or not, and the direction of the stream asked from the
\* spawn) is the outcome the same open has on every entry that differs from
\* it only in its execute bits; the attributes reported for the entry differ
\* from those of each such other entry.
C17_ExecuteBitsIgnoredByOpen ==
    /\ (last.op = "open" /\ Resolves(last.path)) =>
          \A e2 \in XVariants(EntryAt(last.path)) :
              LET denied2 == open_denied(access_rights(e2, last.context),
                                         AccessMode(last.flags))
              IN /\ last.ret = -EACCES <=> denied2
                 /\ last.ret \in {0, -EBADF} <=> ~denied2
                 /\ ~denied2 => last.dir = popen_mode(AccessMode(last.flags))
    /\ (last.op = "getattr" /\ Resolves(last.path)) =>
          \A e2 \in XVariants(EntryAt(last.path)) \ {EntryAt(last.path)} :
              EntryMode(e2) # last.st.st_mode

\* An entry with the execute bit and no read bit for its group has been
\* refused to a caller of the group opening it for reading.
C17_Witness ==
    /\ last.op = "open"
    /\ Resolves(last.path)
    /\ AccessMode(last.flags) = O_RDONLY
    /\ last.context.uid # uid
    /\ last.context.gid = gid
    /\ EntryAt(last.path).g_x
    /\ ~EntryAt(last.path).g_r
    /\ last.ret = -EACCES

----------------------------------------------------------------------------
(* C18 *)

\* The indices of the entries whose stored path is the path without its
\* leading separator; none when the path does not begin with the separator.
Matches(path) ==
    IF path = <<>> \/ Head(path) # "/" THEN {}
    ELSE {i \in 1..Len(entries) : entries[i].path = Tail(path)}

\* C18: a path is taken for the root only when it is the root designator
\* itself; any path is resolved to the first entry in registry order whose
\* stored path is the path without its leading separator, and to nothing when
\* no entry matches or the path does not begin with the separator; an open
\* fails with NotFound, without a spawn, exactly when its path resolves to no
\* entry, as the root designator does.
C18_Resolve ==
    /\ last.op = "find_entry" =>
          /\ last.ret = 1 <=> last.path = <<"/">>
          /\ Matches(last.path) = {} => last.entry = 0
          /\ Matches(last.path) # {} =>
                /\ last.entry \in Matches(last.path)
                /\ \A i \in Matches(last.path) : last.entry <= i
    /\ last.op = "open" =>
          /\ last.ret = -ENOENT <=> Matches(last.path) = {}
          /\ last.ret = -ENOENT => (last.popen = "none" /\ ~fi[last.h].open)
          /\ last.path = <<"/">> => last.ret = -ENOENT

\* A path that two entries of the registry store has been resolved.
C18_Witness ==
    /\ last.op = "find_entry"
    /\ Cardinality(Matches(last.path)) = 2
    /\ last.entry # 0

----------------------------------------------------------------------------
(* C19 *)

\* C19 as stated: a flush or fsync on the root succeeds and one on a path that
\* resolves to nothing fails with NotFound, both without touching a stream;
\* one on an entry's path acts on its own handle's stream only; and none
\* closes the stream, ends the backing process or consumes data: what is left
\* to read, and what has been accepted for the child, are as before.
C19_FlushKeepsStream ==
    [][(last' # last /\ last'.op \in {"flush", "fsync"}) =>
          LET h == last'.h
              fh == fi[h].fh
          IN /\ is_root(last'.path) => (last'.ret = 0 /\ UNCHANGED <<streams, procs>>)
             /\ (~is_root(last'.path) /\ ~Resolves(last'.path)) =>
                   (last'.ret = -ENOENT /\ UNCHANGED <<streams, procs>>)
             /\ UNCHANGED <<entries, uid, gid, fi>>
             /\ \A id \in StreamIds \ {fh} :
                   streams'[id] = streams[id] /\ procs'[id] = procs[id]
             /\ streams'[fh].mode = streams[fh].mode
             /\ procs'[fh].state = procs[fh].state
             /\ streams'[fh].rbuf \o procs'[fh].out = streams[fh].rbuf \o procs[fh].out
             /\ procs'[fh].stdin \o streams'[fh].wbuf = procs[fh].stdin \o streams[fh].wbuf]_vars

----------------------------------------------------------------------------
(* C20 *)

\* C20: a timestamp update, a truncate, or a close or sync of a directory
\* session succeeds exactly when its path is the root or resolves to an
\* Entry and fails with NotFound otherwise, whatever the caller's rights, and
\* either way leaves the registry, the mount identity and every open handle,
\* with its stream, backing process and pending data, as they were.
C20_AcceptedCallsChangeNothing ==
    [][last'.op \in NopStubs =>
          /\ last'.ret = 0 <=> (is_root(last'.path) \/ Resolves(last'.path))
          /\ last'.ret # 0 => last'.ret = -ENOENT
          /\ UNCHANGED <<entries, uid, gid, fi, streams, procs, hist>>]_vars

\* A truncate of an entry's path by a caller with no rights on the entry has
\* succeeded while a handle on it is open with accepted bytes.
C20_Witness ==
    /\ last.op = "truncate"
    /\ last.ret = 0
    /\ Resolves(last.path)
    /\ access_rights(EntryAt(last.path), last.context) = 0
    /\ \E h \in Handles : fi[h].open /\ fi[h].path = last.path /\ hist[h].sent # <<>>

====
